---- MODULE Spec2Model ----
(***************************************************************************)
(* A model of web_scraping.py: the scraper that pages through an imdb.com  *)
(* search, collects the title links of every search page and extracts one  *)
(* record per title page.                                                  *)
(*                                                                         *)
(* Text is modelled at two grains.  Text the code takes apart character by *)
(* character (URLs, the title count, the budget) is a sequence of          *)
(* one-character strings.  Text the code only splits on whitespace and     *)
(* tests for membership (the rating, the awards blurb) is a sequence of    *)
(* whitespace tokens; the substrings the code looks for ('win', 'Oscar',   *)
(* 'Won') hold no whitespace, so they lie inside one token.                *)
(***************************************************************************)
EXTENDS Integers, Sequences, FiniteSets, TLC

VARIABLES
    pc,           \* which function is running and where it stands
    mini_header,  \* get_num_titles: whitespace tokens of the search page's header
    num_titles,   \* get_search_urls: the count read from the header
    i,            \* get_search_urls: the loop variable of range(...)
    search_urls,  \* get_search_urls: the list being built
    soup,         \* the parsed title page handed to an extractor
    result,       \* what the extractor returned or raised
    soups,        \* get_title_urls: the search-page soups it is given
    page_no,      \* get_title_urls: how many of them the loop has done
    titles_links, \* get_title_urls: the list being built
    links,        \* get_movie_df: the links it is given
    movie_dicts,  \* get_movie_df: the list being built
    counter,      \* get_movie_df: the progress counter
    call          \* the latest get_movie_dict call: its link, what the web and
                  \* the rate service answered, and how it ended

urlVars == <<mini_header, num_titles, i, search_urls>>

extractVars == <<soup, result>>

crawlVars == <<soups, page_no, titles_links, links, movie_dicts, counter, call>>

vars == <<pc, urlVars, extractVars, crawlVars>>

\* Optional values: Python's None is the empty tuple, a value v is <<v>>.
None == <<>>

Some(v) == <<v>>

\* How a call ends: it returns a value or raises an exception.
Return(v) == [exc |-> "", val |-> v]

Raise(e) == [exc |-> e, val |-> None]

----------------------------------------------------------------------------
(* Bounds of the model. *)

MaxTitles == 1250

MaxMarkers == 2

MaxLinks == 2

MaxPages == 2

----------------------------------------------------------------------------
(* Characters and numbers. *)

Digits == <<"0", "1", "2", "3", "4", "5", "6", "7", "8", "9">>

IsDigit(c) == \E d \in 1..10 : Digits[d] = c

DigitVal(c) == (CHOOSE d \in 1..10 : Digits[d] = c) - 1

\* str(n) for n >= 0
RECURSIVE Str(_)
Str(n) == IF n < 10 THEN <<Digits[n + 1]>>
          ELSE Append(Str(n \div 10), Digits[(n % 10) + 1])

\* str.isdigit(): non-empty and every character a digit
IsDigitStr(s) == Len(s) > 0 /\ \A k \in 1..Len(s) : IsDigit(s[k])

\* int(s) for a string of digits
RECURSIVE IntOf(_)
IntOf(s) == IF Len(s) = 0 THEN 0
            ELSE 10 * IntOf(SubSeq(s, 1, Len(s) - 1)) + DigitVal(s[Len(s)])

\* s.startswith(t)
StartsWith(s, t) == Len(s) >= Len(t) /\ SubSeq(s, 1, Len(t)) = t

\* s.replace(old, new): every non-overlapping occurrence, left to right
RECURSIVE Replace(_, _, _)
Replace(s, old, new) ==
    IF Len(s) = 0 THEN <<>>
    ELSE IF StartsWith(s, old)
         THEN new \o Replace(SubSeq(s, Len(old) + 1, Len(s)), old, new)
         ELSE <<s[1]>> \o Replace(Tail(s), old, new)

remove_commas(string) == Replace(string, <<",">>, <<>>)

\* '\xa0', the no-break space
NBSP == "nbsp"

\* the characters str.strip() and str.split() treat as whitespace
Whitespace == {" ", "\n", NBSP}

\* sub in s
Contains(s, sub) ==
    \E k \in 1..(Len(s) - Len(sub) + 1) : SubSeq(s, k, k + Len(sub) - 1) = sub

RECURSIVE LStrip(_)
LStrip(s) == IF Len(s) > 0 /\ s[1] \in Whitespace THEN LStrip(Tail(s)) ELSE s

RECURSIVE RStrip(_)
RStrip(s) == IF Len(s) > 0 /\ s[Len(s)] \in Whitespace
             THEN RStrip(SubSeq(s, 1, Len(s) - 1)) ELSE s

\* s.strip()
Strip(s) == RStrip(LStrip(s))

\* s.split(): the maximal runs of non-whitespace characters, in order
RECURSIVE SplitFrom(_, _, _)
SplitFrom(s, word, words) ==
    IF Len(s) = 0 THEN (IF Len(word) > 0 THEN Append(words, word) ELSE words)
    ELSE IF s[1] \in Whitespace
         THEN SplitFrom(Tail(s), <<>>, IF Len(word) > 0 THEN Append(words, word) ELSE words)
         ELSE SplitFrom(Tail(s), Append(word, s[1]), words)

Split(s) == SplitFrom(s, <<>>, <<>>)

\* x in list
InList(x, list) == \E k \in 1..Len(list) : list[k] = x


----------------------------------------------------------------------------
(* The search URLs.  The query strings are abbreviated to the part the     *)
(* code touches: "...release_date=,2020-07-01&...count=100&start=101&ref". *)

UrlHead == <<"?", "d", "=", ",", "2", "0", "2", "0", "-", "0", "7", "-", "0", "1",
             "&", "c", "=", "1", "0", "0">>

UrlStart == <<"&", "s", "=">>

UrlRef == <<"&", "r">>

JAPAN_BASE_URL == UrlHead

JAPAN_NEXT_URL == UrlHead \o UrlStart \o <<"1", "0", "1">> \o UrlRef

\* The header the site prints above a search page: "1-100 of 1,400 titles."
\* (or "57 titles." when the search fits one page).
TitlesWord == <<"t", "i", "t", "l", "e", "s", ".">>

Pad3(n) == IF n < 10 THEN <<"0", "0">> \o Str(n)
           ELSE IF n < 100 THEN <<"0">> \o Str(n) ELSE Str(n)

RECURSIVE FormatCount(_)
FormatCount(n) == IF n < 1000 THEN Str(n)
                  ELSE FormatCount(n \div 1000) \o <<",">> \o Pad3(n % 1000)

HeaderOf(n) == IF n <= 100 THEN <<FormatCount(n), TitlesWord>>
               ELSE <<<<"1", "-", "1", "0", "0">>, <<"o", "f">>, FormatCount(n), TitlesWord>>

\* list.index(x): position of the first element equal to x, 0 when there is none
IndexOf(list, x) ==
    IF \E k \in 1..Len(list) : list[k] = x
    THEN CHOOSE k \in 1..Len(list) : list[k] = x /\ \A j \in 1..(k - 1) : list[j] # x
    ELSE 0

\* get_num_titles, from the split header on
get_num_titles(header) ==
    IntOf(remove_commas(header[IndexOf(header, TitlesWord) - 1]))

RangeLenShort(n) == IF (n \div 100) - 2 > 0 THEN (n \div 100) - 2 ELSE 0

\* range(num_titles//100-1) counts this many values
RangeLen(n) == IF (n \div 100) - 1 > 0 THEN (n \div 100) - 1 ELSE 0

\* next_url.replace('101', str(201+100*i))
NextSearchUrl(next_url, k) == Replace(next_url, <<"1", "0", "1">>, Str(201 + 100 * k))


----------------------------------------------------------------------------
(* Title pages.  A soup is the parsed page, reduced to what the extractors *)
(* look up in it:                                                          *)
(*   h4s       the h4 elements in document order, each with its string     *)
(*             child (label), its parent's text and the next element's text*)
(*   subtext   the text of <div class="subtext">, if there is one          *)
(*   awards    <span class="awards-blurb">, if there is one: its text and  *)
(*             the text of its next sibling, if it has one                 *)
(*   h1        the text of the first h1, if there is one                   *)
(*   budget    the text of the block two levels above the string 'Budget:' *)
(*   genres    the text of the block two levels above the string 'Genres:' *)
(*   rating_value, rating_count, metascore                                 *)
(*             the texts of the elements carrying these marks              *)
(* A release-info soup holds the text after the link to the Japanese       *)
(* calendar (jp_date) and the text of the 'See more release dates' anchor  *)
(* (usa_anchor), each if present.                                          *)

Sp == <<" ">>

Nl == <<"\n">>

COUNTRY_LABEL == <<"C", "o", "u", "n", "t", "r", "y", ":">>

RUNTIME_LABEL == <<"R", "u", "n", "t", "i", "m", "e", ":">>

JAPAN == <<"J", "a", "p", "a", "n">>

USA == <<"U", "S", "A">>

JAPAN_USA == JAPAN \o <<",", " ">> \o USA

WIN == <<"w", "i", "n">>

OSCAR == <<"O", "s", "c", "a", "r">>

WON == <<"W", "o", "n">>

EmptySoup == [h1 |-> None, h4s |-> <<>>, subtext |-> None, awards |-> None,
              budget |-> None, genres |-> None, rating_value |-> None,
              rating_count |-> None, metascore |-> None]

\* get_country with the scan stopped at the first 'Country:' h4
RECURSIVE get_country_first_marker(_)
get_country_first_marker(page) ==
    IF Len(page.h4s) = 0 THEN None
    ELSE LET element  == Head(page.h4s)
             raw_text == Strip(element.parent_text)
         IN  IF element.label = COUNTRY_LABEL
             THEN IF Contains(raw_text, JAPAN) /\ Contains(raw_text, USA)
                  THEN Some(JAPAN_USA)
                  ELSE IF Contains(raw_text, JAPAN) THEN Some(JAPAN)
                  ELSE IF Contains(raw_text, USA) THEN Some(USA)
                  ELSE None
             ELSE get_country_first_marker([page EXCEPT !.h4s = Tail(page.h4s)])

\* get_country: for element in soup.find_all('h4'): ... return None
RECURSIVE get_country(_)
get_country(page) ==
    IF Len(page.h4s) = 0 THEN None
    ELSE LET element  == Head(page.h4s)
             raw_text == Strip(element.parent_text)
             rest     == [page EXCEPT !.h4s = Tail(page.h4s)]
         IN  IF element.label = COUNTRY_LABEL
             THEN IF Contains(raw_text, JAPAN) /\ Contains(raw_text, USA)
                  THEN Some(JAPAN_USA)
                  ELSE IF Contains(raw_text, JAPAN) THEN Some(JAPAN)
                  ELSE IF Contains(raw_text, USA) THEN Some(USA)
                  ELSE get_country(rest)
             ELSE get_country(rest)

\* the list literal of get_mpaa_rating: no comma parts 'TV-14' from 'TV-MA', so
\* Python joins the two literals into one element
ratings ==
    << <<"G">>, <<"P", "G">>, <<"P", "G", "-", "1", "3">>, <<"R">>,
       <<"T", "V", "-", "Y">>, <<"T", "V", "-", "Y", "7">>,
       <<"T", "V", "-", "Y", "7", " ", "F", "V">>,
       <<"T", "V", "-", "G">>, <<"T", "V", "-", "P", "G">>,
       <<"T", "V", "-", "1", "4">> \o <<"T", "V", "-", "M", "A">> >>

\* get_mpaa_rating; [0] of an empty split raises IndexError
get_mpaa_rating(page) ==
    IF page.subtext # None
    THEN LET words == Split(Strip(page.subtext[1]))
         IN  IF Len(words) = 0 THEN Raise("IndexError")
             ELSE IF InList(words[1], ratings) THEN Return(Some(words[1]))
             ELSE Return(None)
    ELSE Return(None)

\* for string in raw_text.split(): if string.isdigit(): return int(string)
RECURSIVE FirstNumber(_)
FirstNumber(words) ==
    IF Len(words) = 0 THEN None
    ELSE IF IsDigitStr(words[1]) THEN Some(IntOf(words[1]))
    ELSE FirstNumber(Tail(words))

\* get_non_oscar_wins with the sibling branch always returning
get_non_oscar_wins_no_fall_through(page) ==
    IF page.awards # None
    THEN LET blurb == page.awards[1]
             own   == Strip(blurb.text)
         IN  IF Contains(blurb.text, OSCAR) /\ blurb.sibling # None
                /\ Contains(Strip(blurb.sibling[1]), WIN)
             THEN FirstNumber(Split(Strip(blurb.sibling[1])))
             ELSE IF Contains(own, WIN) THEN FirstNumber(Split(own)) ELSE None
    ELSE None

\* get_non_oscar_wins: a loop that finds no number falls out of its if-block
\* and the code goes on to the next statement
get_non_oscar_wins(page) ==
    IF page.awards # None
    THEN LET blurb     == page.awards[1]
             own       == Strip(blurb.text)
             from_sib  == IF Contains(blurb.text, OSCAR) /\ blurb.sibling # None
                             /\ Contains(Strip(blurb.sibling[1]), WIN)
                          THEN FirstNumber(Split(Strip(blurb.sibling[1])))
                          ELSE None
         IN  IF from_sib # None THEN from_sib
             ELSE IF Contains(own, WIN) THEN FirstNumber(Split(own))
             ELSE None
    ELSE None

\* re.sub(mark + '.+', '', s): a mark followed by at least one character other
\* than a newline goes, together with the rest of its line
RECURSIVE DropLine(_)
DropLine(s) == IF Len(s) = 0 \/ s[1] = "\n" THEN s ELSE DropLine(Tail(s))

RECURSIVE SubMarkToLineEnd(_, _)
SubMarkToLineEnd(s, mark) ==
    IF Len(s) = 0 THEN <<>>
    ELSE IF s[1] = mark /\ Len(s) >= 2 /\ s[2] # "\n"
         THEN SubMarkToLineEnd(DropLine(Tail(s)), mark)
         ELSE <<s[1]>> \o SubMarkToLineEnd(Tail(s), mark)

clean_title(string) == SubMarkToLineEnd(string, NBSP)

BUDGET_LABEL == <<"B", "u", "d", "g", "e", "t", ":">>

GENRES_LABEL == <<"G", "e", "n", "r", "e", "s", ":">>

GROSS_LABEL == <<"C", "u", "m", "u", "l", "a", "t", "i", "v", "e", " ",
                 "W", "o", "r", "l", "d", "w", "i", "d", "e", " ",
                 "G", "r", "o", "s", "s", ":">>

clean_budget(string) ==
    SubMarkToLineEnd(remove_commas(Replace(string, BUDGET_LABEL, <<>>)), "\n")

clean_genres(string) ==
    Replace(Replace(Replace(string, GENRES_LABEL, <<>>), <<"\n", " ">>, <<>>),
            <<NBSP, "|">>, <<",", " ">>)

\* int(s) on text: surrounding whitespace is ignored, anything but digits in
\* between raises ValueError (signs and underscores are left out)
PyInt(s) == IF IsDigitStr(Strip(s)) THEN Return(IntOf(Strip(s))) ELSE Raise("ValueError")

\* float(s) on text of the form digits.digits, kept as its two parts
PyFloat(s) ==
    LET t   == Strip(s)
        dot == IndexOf(t, ".")
    IN  IF dot > 1 /\ dot < Len(t) /\ IsDigitStr(SubSeq(t, 1, dot - 1))
           /\ IsDigitStr(SubSeq(t, dot + 1, Len(t)))
        THEN Return([whole |-> IntOf(SubSeq(t, 1, dot - 1)),
                     frac  |-> SubSeq(t, dot + 1, Len(t))])
        ELSE IF IsDigitStr(t) THEN Return([whole |-> IntOf(t), frac |-> <<"0">>])
        ELSE Raise("ValueError")

\* an extractor's value wrapped as optional, its exception passed on
Opt(r) == IF r.exc = "" THEN Return(Some(r.val)) ELSE r

dollars_to_int(dollars_string) == PyInt(Replace(dollars_string, <<"$">>, <<>>))

\* The rate of 10 July 2020 per currency, as a fraction; a currency missing
\* here has no rate for that date.
PinnedRates == [c \in {<<"J", "P", "Y">>} |-> [num |-> 93, den |-> 10000]]

\* CurrencyRates().convert(cur, 'USD', amount, jul_10_2020); rates says whether
\* the rate service answers for that date
Convert(cur, amount, rates) ==
    IF rates = "available" /\ cur \in DOMAIN PinnedRates
    THEN Return((amount * PinnedRates[cur].num) \div PinnedRates[cur].den)
    ELSE Raise("RatesNotAvailableError")

fx_to_dollars_int(budget, rates) ==
    LET amount == PyInt(SubSeq(budget, 4, Len(budget)))
    IN  IF amount.exc # "" THEN amount
        ELSE Convert(SubSeq(budget, 1, IF Len(budget) < 3 THEN Len(budget) ELSE 3),
                     amount.val, rates)

get_title(page) ==
    IF page.h1 # None THEN Some(clean_title(Strip(page.h1[1]))) ELSE None

RECURSIVE get_runtime(_)
get_runtime(page) ==
    IF Len(page.h4s) = 0 THEN Return(None)
    ELSE LET element == Head(page.h4s)
             words   == Split(element.next_text)
         IN  IF element.label = RUNTIME_LABEL
             THEN IF Len(words) = 0 THEN Raise("IndexError") ELSE Opt(PyInt(words[1]))
             ELSE get_runtime([page EXCEPT !.h4s = Tail(page.h4s)])

get_budget(page, rates) ==
    IF page.budget # None
    THEN LET budget == clean_budget(Strip(page.budget[1]))
         IN  IF Contains(budget, <<"$">>) THEN Opt(dollars_to_int(budget))
             ELSE Opt(fx_to_dollars_int(budget, rates))
    ELSE Return(None)

RECURSIVE get_global_gross(_)
get_global_gross(page) ==
    IF Len(page.h4s) = 0 THEN Return(None)
    ELSE LET element == Head(page.h4s)
         IN  IF element.label = GROSS_LABEL
             THEN Opt(dollars_to_int(remove_commas(
                      Replace(Strip(element.parent_text), GROSS_LABEL \o Sp, <<>>))))
             ELSE get_global_gross([page EXCEPT !.h4s = Tail(page.h4s)])

get_genres(page) ==
    IF page.genres # None THEN Some(clean_genres(Strip(page.genres[1]))) ELSE None

get_user_rating(page) ==
    IF page.rating_value # None THEN Opt(PyFloat(page.rating_value[1])) ELSE Return(None)

get_user_rating_count(page) ==
    IF page.rating_count # None THEN Opt(PyInt(remove_commas(page.rating_count[1])))
    ELSE Return(None)

get_oscar_wins(page) ==
    IF page.awards # None /\ Contains(page.awards[1].text, WON)
    THEN FirstNumber(Split(Strip(page.awards[1].text)))
    ELSE None

get_metascore(page) ==
    IF page.metascore # None THEN Opt(PyInt(Strip(page.metascore[1]))) ELSE Return(None)

Months == <<<<"J", "a", "n", "u", "a", "r", "y">>, <<"F", "e", "b", "r", "u", "a", "r", "y">>,
            <<"M", "a", "r", "c", "h">>, <<"A", "p", "r", "i", "l">>, <<"M", "a", "y">>,
            <<"J", "u", "n", "e">>, <<"J", "u", "l", "y">>, <<"A", "u", "g", "u", "s", "t">>,
            <<"S", "e", "p", "t", "e", "m", "b", "e", "r">>,
            <<"O", "c", "t", "o", "b", "e", "r">>, <<"N", "o", "v", "e", "m", "b", "e", "r">>,
            <<"D", "e", "c", "e", "m", "b", "e", "r">>>>

\* dateutil.parser.parse on the form the release-info page prints, 'day Month
\* year'; text that is no date raises ParserError
to_datetime(datestring) ==
    LET words == Split(datestring)
    IN  IF Len(words) = 3 /\ IsDigitStr(words[1]) /\ InList(words[2], Months)
           /\ IsDigitStr(words[3])
        THEN Return([year |-> IntOf(words[3]), month |-> IndexOf(Months, words[2]),
                     day |-> IntOf(words[1])])
        ELSE Raise("ParserError")

get_japan_release_date(release) ==
    IF release.jp_date # None THEN Opt(to_datetime(release.jp_date[1])) ELSE Return(None)

get_usa_release_date(release) ==
    IF release.usa_anchor # None
    THEN Some(Replace(Strip(release.usa_anchor[1]),
                      <<" ", "(", "U", "S", "A", ")">>, <<>>))
    ELSE None

----------------------------------------------------------------------------
(* get_movie_dict: one title page, and its release-info page, to a record. *)

BASE_URL == <<"i", "m", "d", "b", ".", "c", "o", "m">>

RELEASEINFO == <<"r", "e", "l", "e", "a", "s", "e", "i", "n", "f", "o">>

\* requests.get(url) and the parse, against what the web answers for url
create_soup(url, web) == web[url]

\* the first exception among calls made in this order, "" when none raised
RECURSIVE FirstExc(_)
FirstExc(outs) == IF Len(outs) = 0 THEN ""
                  ELSE IF Head(outs).exc # "" THEN Head(outs).exc
                  ELSE FirstExc(Tail(outs))

\* both dates read whatever the country
release_dates_both(country, release_info_soup) ==
    LET jp == get_japan_release_date(release_info_soup)
    IN  [exc |-> jp.exc, japan |-> jp.val, usa |-> get_usa_release_date(release_info_soup)]

\* if country == 'Japan': ... elif country == 'USA': ... else: ...
release_dates(country, release_info_soup) ==
    IF country = Some(JAPAN)
    THEN LET jp == get_japan_release_date(release_info_soup)
         IN  [exc |-> jp.exc, japan |-> jp.val, usa |-> None]
    ELSE IF country = Some(USA)
    THEN [exc |-> "", japan |-> None, usa |-> get_usa_release_date(release_info_soup)]
    ELSE [exc |-> "", japan |-> None, usa |-> None]

Failed(e, urls) == [exc |-> e, val |-> None, requests |-> urls]

\* get_movie_dict; requests lists the URLs it asked the web for
get_movie_dict(link, web, rates) ==
    LET url   == BASE_URL \o link
        first == create_soup(url, web)
    IN  IF first.exc # "" THEN Failed(first.exc, <<url>>)
        ELSE
        LET page         == first.val
            title        == get_title(page)
            country      == get_country(page)
            runtime      == get_runtime(page)
            budget       == get_budget(page, rates)
            global_gross == get_global_gross(page)
            mpaa_rating  == get_mpaa_rating(page)
            early        == FirstExc(<<runtime, budget, global_gross, mpaa_rating>>)
        IN  IF early # "" THEN Failed(early, <<url>>)
            ELSE
            LET release_info_url == url \o RELEASEINFO
                second           == create_soup(release_info_url, web)
                fetched          == <<url, release_info_url>>
            IN  IF second.exc # "" THEN Failed(second.exc, fetched)
                ELSE
                LET dates  == release_dates(country, second.val)
                    rating == get_user_rating(page)
                    count  == get_user_rating_count(page)
                    meta   == get_metascore(page)
                    late   == FirstExc(<<dates, rating, count, meta>>)
                IN  IF late # "" THEN Failed(late, fetched)
                    ELSE [exc |-> "",
                          val |-> [title |-> title,
                                   country |-> country,
                                   runtime_minutes |-> runtime.val,
                                   budget |-> budget.val,
                                   global_gross |-> global_gross.val,
                                   mpaa_rating |-> mpaa_rating.val,
                                   japan_release_date |-> dates.japan,
                                   usa_release_date |-> dates.usa,
                                   genres |-> get_genres(page),
                                   imdb_user_rating |-> rating.val,
                                   imdb_user_rating_count |-> count.val,
                                   oscar_wins |-> get_oscar_wins(page),
                                   non_oscar_wins |-> get_non_oscar_wins(page),
                                   metascore |-> meta.val],
                          requests |-> fetched]

----------------------------------------------------------------------------
(* Title pages the extractors are run on. *)

FRANCE == <<"F", "r", "a", "n", "c", "e">>

Bar == <<" ", "|", " ">>

\* what follows the label inside the block of an h4
H4Bodies == {JAPAN, USA, JAPAN \o Bar \o USA, USA \o Bar \o JAPAN, FRANCE,
             <<"9", "0", " ", "m", "i", "n">>}

H4Elements ==
    {[label |-> l, parent_text |-> Nl \o l \o Sp \o b \o Nl, next_text |-> b] :
        l \in {COUNTRY_LABEL, RUNTIME_LABEL}, b \in H4Bodies}

SeqsUpTo(S, n) == UNION {[1..k -> S] : k \in 0..n}

CountrySoups == {[EmptySoup EXCEPT !.h4s = h] : h \in SeqsUpTo(H4Elements, MaxMarkers)}

\* first words of a subtext block: the ten one-word rating codes, the element
\* the list literal really holds, and words that are no rating
RatingCodes ==
    {<<"G">>, <<"P", "G">>, <<"P", "G", "-", "1", "3">>, <<"R">>,
     <<"T", "V", "-", "Y">>, <<"T", "V", "-", "Y", "7">>,
     <<"T", "V", "-", "G">>, <<"T", "V", "-", "P", "G">>,
     <<"T", "V", "-", "1", "4">>, <<"T", "V", "-", "M", "A">>}

OtherFirstWords ==
    {<<"N", "o", "t">>, <<"1", "h">>, <<"U", "n", "r", "a", "t", "e", "d">>,
     <<"T", "V", "-", "1", "4", "T", "V", "-", "M", "A">>, <<>>}

SubtextTails == {<<>>, <<" ", "F", "V">>, <<" ", "R", "a", "t", "e", "d">>,
                 Bar \o <<"1", "h">>, Nl}

SubtextTexts ==
    {lead \o w \o tail : lead \in {<<>>, Nl \o Sp},
                         w \in RatingCodes \cup OtherFirstWords,
                         tail \in SubtextTails}

RatingSoups == {[EmptySoup EXCEPT !.subtext = Some(t)] : t \in SubtextTexts}

\* sentences of an awards blurb
Won2Oscars == <<"W", "o", "n", " ", "2", " ", "O", "s", "c", "a", "r", "s", ".">>

Another5Wins == <<"A", "n", "o", "t", "h", "e", "r", " ", "5", " ", "w", "i", "n", "s", ".">>

Wins12Noms3 == <<"1", "2", " ", "w", "i", "n", "s", " ", "&", " ", "3", " ",
                 "n", "o", "m", "i", "n", "a", "t", "i", "o", "n", "s">>

Nominated1Oscar == <<"N", "o", "m", "i", "n", "a", "t", "e", "d", " ", "f", "o", "r",
                     " ", "1", " ", "O", "s", "c", "a", "r", ".">>

SeveralWins == <<"s", "e", "v", "e", "r", "a", "l", " ", "w", "i", "n", "s">>

Noms3 == <<"3", " ", "n", "o", "m", "i", "n", "a", "t", "i", "o", "n", "s">>

Wins5 == <<"5", " ", "w", "i", "n", "s">>

AwardSentences == {Won2Oscars, Another5Wins, Wins12Noms3, Nominated1Oscar,
                   SeveralWins, Noms3}

AwardTexts ==
    {<<>>} \cup {Nl \o a \o Nl : a \in AwardSentences}
           \cup {a \o Sp \o b : a, b \in AwardSentences}

SiblingTexts == {Wins5, Another5Wins, SeveralWins, Noms3, <<>>}

AwardSoups ==
    {[EmptySoup EXCEPT !.awards = Some([text |-> t, sibling |-> sib])] :
        t \in AwardTexts, sib \in {None} \cup {Some(x) : x \in SiblingTexts}}

ExtractSoups == CountrySoups \cup RatingSoups \cup AwardSoups

NoResult == [fn |-> "", out |-> Return(None)]

\* no call yet: the link is empty
NoCall == [link |-> <<>>, detail |-> Raise(""), release |-> Raise(""),
           rates |-> "", out |-> Failed("", <<>>)]

UrlIdle == mini_header = <<>> /\ num_titles = 0 /\ i = 0 /\ search_urls = <<>>

ExtractIdle == soup = EmptySoup /\ result = NoResult

CrawlIdle ==
    /\ soups = <<>>
    /\ page_no = 0
    /\ titles_links = <<>>
    /\ links = <<>>
    /\ movie_dicts = <<>>
    /\ counter = 0
    /\ call = NoCall

InitExtract ==
    /\ pc = "extract"
    /\ soup \in ExtractSoups
    /\ result = NoResult
    /\ UrlIdle
    /\ CrawlIdle

Extracted(fn, out) ==
    /\ pc = "extract"
    /\ result' = [fn |-> fn, out |-> out]
    /\ pc' = "extracted"
    /\ UNCHANGED <<soup, urlVars, crawlVars>>

CallGetCountry == Extracted("get_country", Return(get_country(soup)))

CallGetMpaaRating == Extracted("get_mpaa_rating", get_mpaa_rating(soup))

CallGetNonOscarWins == Extracted("get_non_oscar_wins", Return(get_non_oscar_wins(soup)))

NextExtract == CallGetCountry \/ CallGetMpaaRating \/ CallGetNonOscarWins

SpecExtract == InitExtract /\ [][NextExtract]_vars

----------------------------------------------------------------------------
(* The web the crawl runs against.  Search pages list the title links      *)
(* /tt1/, /tt2/, ... in this order, split over the pages; the title page   *)
(* of link n carries the title 'Mn' and varies in the country its          *)
(* 'Country:' block names and in the currency of its budget.               *)

LinkOf(n) == <<"/", "t", "t">> \o Str(n) \o <<"/">>

TitleOf(n) == <<"M">> \o Str(n)

Heading(n) == Nl \o TitleOf(n) \o <<NBSP, "(", "2", "0", "2", "0", ")">> \o Nl

\* a page with a heading and nothing else, as served for a title without data
\* or with an error status (requests.get raises on no status code, so such a
\* page is parsed like any other)
TitlePage(n) == [EmptySoup EXCEPT !.h1 = Some(Heading(n))]

H4(label, body) == [label |-> label, parent_text |-> Nl \o label \o Sp \o body \o Nl,
                    next_text |-> body]

UsdBudget == BUDGET_LABEL \o <<"$", "1", ",", "2", "3", "4">> \o Nl
             \o <<" ", "(", "e", "s", "t", ")">>

YenBudget == BUDGET_LABEL \o <<"J", "P", "Y", "5", "0", "0", ",", "0", "0", "0">> \o Nl
             \o <<" ", "(", "e", "s", "t", ")">>

FullPage(n, country, budget) ==
    [h1           |-> Some(Heading(n)),
     h4s          |-> <<H4(COUNTRY_LABEL, country),
                        H4(RUNTIME_LABEL, <<"9", "0", " ", "m", "i", "n">>),
                        H4(GROSS_LABEL, <<"$", "1", ",", "5", "0", "0">>)>>,
     subtext      |-> Some(Nl \o <<"P", "G">> \o Bar \o <<"1", "h">>),
     awards       |-> Some([text |-> Wins12Noms3, sibling |-> None]),
     budget       |-> Some(budget),
     genres       |-> Some(GENRES_LABEL \o <<"\n", " ", "A", NBSP, "|", "\n", " ", "B">>),
     rating_value |-> Some(<<"7", ".", "8">>),
     rating_count |-> Some(<<"1", ",", "2", "3", "4">>),
     metascore    |-> Some(<<"\n", "8", "1", "\n">>)]

\* a page whose metascore box holds no number
DriftedPage(n) == [FullPage(n, JAPAN, UsdBudget) EXCEPT !.metascore = Some(<<"t", "b", "d">>)]

DetailSoups(n) ==
    {TitlePage(n), DriftedPage(n)} \cup
    {FullPage(n, c, b) : c \in {JAPAN, USA, JAPAN \o Bar \o USA, FRANCE},
                         b \in {UsdBudget, YenBudget}}

ReleaseSoups ==
    {[jp_date |-> None, usa_anchor |-> None],
     [jp_date |-> Some(<<"1", "7", " ", "J", "u", "l", "y", " ", "2", "0", "2", "0">>),
      usa_anchor |-> Some(<<"1", "0", " ", "J", "u", "l", "y", " ", "(", "U", "S", "A", ")">>)],
     [jp_date |-> Some(<<"T", "B", "A">>), usa_anchor |-> None]}

Responses(pages) == {Raise("ConnectionError")} \cup {Return(p) : p \in pages}

WebFor(link, detail, release) ==
    [u \in {BASE_URL \o link, BASE_URL \o link \o RELEASEINFO} |->
        IF u = BASE_URL \o link THEN detail ELSE release]

\* the number n of the link /ttn/
NumberOf(link) == CHOOSE n \in 1..MaxLinks : LinkOf(n) = link

\* a search page: its 'lister-list' block with the hrefs of its items, if the
\* page has the block
ListingSoup(hrefs) == [lister |-> Some(hrefs)]

NoListerSoup == [lister |-> None]

\* the links /tt1/ .. /ttn/ split at the given places into consecutive pages
RECURSIVE PagesOf(_, _)
PagesOf(hrefs, sizes) ==
    IF Len(sizes) = 0 THEN <<>>
    ELSE <<ListingSoup(SubSeq(hrefs, 1, Head(sizes)))>>
         \o PagesOf(SubSeq(hrefs, Head(sizes) + 1, Len(hrefs)), Tail(sizes))

RECURSIVE Sum(_)
Sum(sizes) == IF Len(sizes) = 0 THEN 0 ELSE Head(sizes) + Sum(Tail(sizes))

Listings ==
    {PagesOf([k \in 1..Sum(sizes) |-> LinkOf(k)], sizes) :
        sizes \in {z \in SeqsUpTo(0..MaxLinks, MaxPages) : Sum(z) <= MaxLinks}}
    \cup {<<ListingSoup(<<LinkOf(1)>>), NoListerSoup>>}

----------------------------------------------------------------------------
(* get_title_urls and get_movie_df, step by step. *)

PrependRecord(list, record) == <<record>> \o list

\* movie_dicts.append(get_movie_dict(link))
AppendRecord(list, record) == Append(list, record)

InitCrawl ==
    /\ pc = "get_title_urls"
    /\ soups \in Listings
    /\ page_no = 0
    /\ titles_links = <<>>
    /\ links = <<>>
    /\ movie_dicts = <<>>
    /\ counter = 0
    /\ call = NoCall
    /\ UrlIdle
    /\ ExtractIdle

\* one round of: for soup in soups: ...find('div', class_='lister-list')...;
\* a page without the block makes find return None, and .find_all raises
TitleUrlsPage ==
    /\ pc = "get_title_urls"
    /\ page_no < Len(soups)
    /\ LET page == soups[page_no + 1]
       IN  IF page.lister = None
           THEN /\ pc' = "title_urls_raised"
                /\ UNCHANGED <<page_no, titles_links>>
           ELSE /\ titles_links' = titles_links \o page.lister[1]
                /\ page_no' = page_no + 1
                /\ UNCHANGED pc
    /\ UNCHANGED <<soups, links, movie_dicts, counter, call, urlVars, extractVars>>

\* return titles_links
ReturnTitleUrls ==
    /\ pc = "get_title_urls"
    /\ page_no = Len(soups)
    /\ pc' = "title_urls_returned"
    /\ UNCHANGED <<crawlVars, urlVars, extractVars>>

\* get_movie_df(links) called with the links get_title_urls returned
CallGetMovieDf ==
    /\ pc = "title_urls_returned"
    /\ links' = titles_links
    /\ movie_dicts' = <<>>
    /\ counter' = 0
    /\ soups' = <<>>
    /\ page_no' = 0
    /\ pc' = "get_movie_df"
    /\ UNCHANGED <<titles_links, call, urlVars, extractVars>>

\* one round of: for link in links: movie_dicts.append(get_movie_dict(link));
\* counter += 1.  No try surrounds the call: an exception ends get_movie_df.
ProcessLink ==
    /\ pc = "get_movie_df"
    /\ counter < Len(links)
    /\ LET link == links[counter + 1]
       IN  \E detail \in Responses(DetailSoups(NumberOf(link))),
              release \in Responses(ReleaseSoups),
              rates \in {"available", "unavailable"} :
             LET out == get_movie_dict(link, WebFor(link, detail, release), rates)
             IN  /\ call' = [link |-> link, detail |-> detail, release |-> release,
                             rates |-> rates, out |-> out]
                 /\ IF out.exc = ""
                    THEN /\ movie_dicts' = AppendRecord(movie_dicts, out.val)
                         /\ counter' = counter + 1
                         /\ UNCHANGED pc
                    ELSE /\ pc' = "movie_df_raised"
                         /\ UNCHANGED <<movie_dicts, counter>>
    /\ UNCHANGED <<soups, page_no, titles_links, links, urlVars, extractVars>>

\* movie_df = pd.DataFrame(movie_dicts); return movie_df
ReturnMovieDf ==
    /\ pc = "get_movie_df"
    /\ counter = Len(links)
    /\ pc' = "movie_df_returned"
    /\ UNCHANGED <<crawlVars, urlVars, extractVars>>

NextCrawl ==
    TitleUrlsPage \/ ReturnTitleUrls \/ CallGetMovieDf \/ ProcessLink \/ ReturnMovieDf

SpecCrawl == InitCrawl /\ [][NextCrawl]_vars

----------------------------------------------------------------------------
(* get_search_urls, step by step. *)

InitUrls ==
    /\ pc = "get_search_urls"
    /\ \E n \in 1..MaxTitles : mini_header = HeaderOf(n)
    /\ num_titles = 0
    /\ i = 0
    /\ search_urls = <<>>
    /\ soup = EmptySoup
    /\ result = NoResult
    /\ CrawlIdle

\* search_urls = [base_url, next_url]; num_titles = get_num_titles(base_url)
GetNumTitles ==
    /\ pc = "get_search_urls"
    /\ search_urls' = <<JAPAN_BASE_URL, JAPAN_NEXT_URL>>
    /\ num_titles' = get_num_titles(mini_header)
    /\ i' = 0
    /\ pc' = "search_urls_loop"
    /\ UNCHANGED <<mini_header, extractVars, crawlVars>>

\* one iteration of: for i in range(num_titles//100-1): search_urls.append(...)
AppendSearchUrl ==
    /\ pc = "search_urls_loop"
    /\ i < RangeLen(num_titles)
    /\ search_urls' = Append(search_urls, NextSearchUrl(JAPAN_NEXT_URL, i))
    /\ i' = i + 1
    /\ UNCHANGED <<pc, mini_header, num_titles, extractVars, crawlVars>>

\* return search_urls
ReturnSearchUrls ==
    /\ pc = "search_urls_loop"
    /\ i >= RangeLen(num_titles)
    /\ pc' = "search_urls_returned"
    /\ UNCHANGED <<urlVars, extractVars, crawlVars>>

NextUrls == GetNumTitles \/ AppendSearchUrl \/ ReturnSearchUrls

SpecUrls == InitUrls /\ [][NextUrls]_vars

----------------------------------------------------------------------------
(* Claims about get_search_urls. *)

Max(a, b) == IF a >= b THEN a ELSE b

CeilDiv(a, b) == (a + b - 1) \div b

\* the second search URL with the offset 101 exchanged for n
UrlWithOffset(n) == UrlHead \o UrlStart \o Str(n) \o UrlRef

\* the run of digits at the head of s
RECURSIVE LeadingDigits(_)
LeadingDigits(s) == IF Len(s) > 0 /\ IsDigit(s[1])
                    THEN <<s[1]>> \o LeadingDigits(Tail(s)) ELSE <<>>

\* The number of the first item the site shows for a search URL: the value of
\* its start parameter, 1 when it has none.
RECURSIVE OffsetOf(_)
OffsetOf(url) ==
    IF Len(url) = 0 THEN 1
    ELSE IF StartsWith(url, UrlStart)
         THEN IntOf(LeadingDigits(SubSeq(url, Len(UrlStart) + 1, Len(url))))
         ELSE OffsetOf(Tail(url))

ExpectedSearchUrls(T) ==
    <<JAPAN_BASE_URL, JAPAN_NEXT_URL>> \o
    [k \in 1..Max(0, CeilDiv(T, 100) - 2) |-> UrlWithOffset(201 + 100 * (k - 1))]

\* C1: for every count T >= 1 read from the first page, get_search_urls returns
\* [base_url, next_url] followed by max(0, ceil(T/100) - 2) URLs, the i-th one
\* next_url with 101 replaced by 201 + 100*i; also when T is a multiple of 100.
C1_SearchUrlsCeil ==
    pc = "search_urls_returned" => search_urls = ExpectedSearchUrls(num_titles)

\* C2: the returned pages, each holding the 100 items from its offset on, cover
\* every item 1..T exactly once: offsets rise in steps of 100 from 1, and the
\* last offset plus 99 reaches T.
C2_CoversEveryItemOnce ==
    pc = "search_urls_returned" =>
        LET offsets == [k \in 1..Len(search_urls) |-> OffsetOf(search_urls[k])]
        IN  /\ Len(offsets) >= 1
            /\ offsets[1] = 1
            /\ \A k \in 1..(Len(offsets) - 1) : offsets[k + 1] = offsets[k] + 100
            /\ offsets[Len(offsets)] + 99 >= num_titles
            /\ \A n \in 1..num_titles :
                   Cardinality({k \in 1..Len(offsets) :
                                    offsets[k] <= n /\ n <= offsets[k] + 99}) = 1

C2_Witness ==
    /\ pc = "search_urls_returned"
    /\ num_titles = 1234
    /\ mini_header = HeaderOf(1234)
    /\ Len(search_urls) = 13
    /\ OffsetOf(search_urls[13]) = 1201

----------------------------------------------------------------------------
(* Claims about the extractors. *)

Min(S) == CHOOSE x \in S : \A y \in S : x <= y

\* the closed rating set of the specification
ClosedRatingSet == RatingCodes \cup {<<"T", "V", "-", "Y", "7", " ", "F", "V">>}

\* C8: on a page with a subtext block get_mpaa_rating returns the block's first
\* whitespace token when it is in the closed rating set {G, PG, PG-13, R, TV-Y,
\* TV-Y7, 'TV-Y7 FV', TV-G, TV-PG, TV-14, TV-MA}, and None otherwise.
C8_ClosedRatingSet ==
    (pc = "extracted" /\ result.fn = "get_mpaa_rating" /\ soup.subtext # None) =>
        LET words == Split(soup.subtext[1])
        IN  Len(words) > 0 =>
                result.out = IF words[1] \in ClosedRatingSet
                             THEN Return(Some(words[1])) ELSE Return(None)

\* the first purely numeric whitespace token of a text, as a number
FirstNumericToken(text) ==
    LET words == Split(text)
        at    == {k \in 1..Len(words) : IsDigitStr(words[k])}
    IN  IF at = {} THEN None ELSE Some(IntOf(words[Min(at)]))

OscarWithWinSibling(blurb) ==
    /\ Contains(blurb.text, OSCAR)
    /\ blurb.sibling # None
    /\ Contains(blurb.sibling[1], WIN)

\* C9: if the awards text mentions 'Oscar' and a following sibling exists whose
\* text contains 'win', the result is the sibling's first numeric token;
\* otherwise, if the awards text contains 'win', the first numeric token of that
\* text; otherwise, also without an awards element, None.
C9_DocumentedPrecedence ==
    (pc = "extracted" /\ result.fn = "get_non_oscar_wins") =>
        result.out.val =
            IF soup.awards = None THEN None
            ELSE LET blurb == soup.awards[1]
                 IN  IF OscarWithWinSibling(blurb)
                     THEN FirstNumericToken(blurb.sibling[1])
                     ELSE IF Contains(blurb.text, WIN)
                          THEN FirstNumericToken(blurb.text)
                          ELSE None

\* C9 as amended: the sibling decides only when it also holds a numeric token;
\* a sibling with 'win' and no number leaves the decision to the awards text.
C9_PrecedenceWithFallThrough ==
    (pc = "extracted" /\ result.fn = "get_non_oscar_wins") =>
        result.out.val =
            IF soup.awards = None THEN None
            ELSE LET blurb == soup.awards[1]
                 IN  IF OscarWithWinSibling(blurb)
                        /\ FirstNumericToken(blurb.sibling[1]) # None
                     THEN FirstNumericToken(blurb.sibling[1])
                     ELSE IF Contains(blurb.text, WIN)
                          THEN FirstNumericToken(blurb.text)
                          ELSE None

\* 'Won 2 Oscars. Another 5 wins.' beside a sibling 'several wins' gives 2
C9_Witness ==
    /\ pc = "extracted"
    /\ result.fn = "get_non_oscar_wins"
    /\ soup.awards = Some([text |-> Won2Oscars \o Sp \o Another5Wins,
                           sibling |-> Some(SeveralWins)])
    /\ result.out.val = Some(2)

\* the country a block of text names
CountryNamed(text) ==
    IF Contains(text, JAPAN) /\ Contains(text, USA) THEN Some(JAPAN_USA)
    ELSE IF Contains(text, JAPAN) THEN Some(JAPAN)
    ELSE IF Contains(text, USA) THEN Some(USA)
    ELSE None

\* C10: get_country decides from the first h4 carrying the 'Country:' label
\* only; later 'Country:' markers are never consulted; the result is one of
\* 'Japan', 'USA', 'Japan, USA', None.
C10_FirstMarkerOnly ==
    (pc = "extracted" /\ result.fn = "get_country") =>
        LET at == {k \in 1..Len(soup.h4s) : soup.h4s[k].label = COUNTRY_LABEL}
        IN  /\ result.out.val = IF at = {} THEN None
                                ELSE CountryNamed(soup.h4s[Min(at)].parent_text)
            /\ result.out.val \in {Some(JAPAN), Some(USA), Some(JAPAN_USA), None}

\* C10 as amended: the first 'Country:' h4 whose block names Japan or USA
\* decides; a 'Country:' h4 naming neither is passed over.
C10_FirstNamingMarker ==
    (pc = "extracted" /\ result.fn = "get_country") =>
        LET at == {k \in 1..Len(soup.h4s) :
                      /\ soup.h4s[k].label = COUNTRY_LABEL
                      /\ CountryNamed(soup.h4s[k].parent_text) # None}
        IN  /\ result.out.val = IF at = {} THEN None
                                ELSE CountryNamed(soup.h4s[Min(at)].parent_text)
            /\ result.out.val \in {Some(JAPAN), Some(USA), Some(JAPAN_USA), None}

\* a 'Country:' h4 naming France, then one naming Japan: the result is Japan
C10_Witness ==
    /\ pc = "extracted"
    /\ result.fn = "get_country"
    /\ Len(soup.h4s) = 2
    /\ soup.h4s[1].label = COUNTRY_LABEL
    /\ soup.h4s[1].next_text = FRANCE
    /\ soup.h4s[2].label = COUNTRY_LABEL
    /\ soup.h4s[2].next_text = JAPAN
    /\ result.out.val = Some(JAPAN)

----------------------------------------------------------------------------
(* Claims about the crawl. *)

IsPrefix(a, b) == Len(a) <= Len(b) /\ SubSeq(b, 1, Len(a)) = a

RECURSIVE Flatten(_)
Flatten(pages) == IF Len(pages) = 0 THEN <<>>
                  ELSE Head(pages).lister[1] \o Flatten(Tail(pages))

InMovieDf == pc \in {"get_movie_df", "movie_df_returned"}

\* after k links there are k records, record j carries the title of link j and
\* the latest record is the one the latest call returned; get_title_urls
\* returns the links of page 1, then page 2, ...; get_movie_df gets that list
C3_RecordPerLinkInOrder ==
    /\ InMovieDf =>
          /\ Len(movie_dicts) = counter
          /\ links = titles_links
          /\ \A j \in 1..counter :
                 movie_dicts[j].title = Some(TitleOf(NumberOf(links[j])))
          /\ (counter > 0 /\ call.out.exc = "") =>
                 (call.link = links[counter] /\ movie_dicts[counter] = call.out.val)
    /\ pc = "title_urls_returned" => titles_links = Flatten(soups)

\* a step of get_movie_df leaves the records it already holds as they are
C3_RecordsKept ==
    (InMovieDf /\ InMovieDf') => IsPrefix(movie_dicts, movie_dicts')

\* C3: after get_movie_df has processed k links the output holds exactly k
\* records, record j being the one extracted from link j, appended in input
\* order and never reordered, changed or removed; get_title_urls returns the
\* links page by page in on-page order.
C3_OrderPreserved == []C3_RecordPerLinkInOrder /\ [][C3_RecordsKept]_vars

C3_Witness ==
    /\ pc = "movie_df_returned"
    /\ counter = 2
    /\ Len(movie_dicts) = 2
    /\ movie_dicts[1].title = Some(TitleOf(1))
    /\ movie_dicts[2].title = Some(TitleOf(2))
    /\ movie_dicts[1].country # movie_dicts[2].country

\* C4: in every record japan_release_date and usa_release_date are never both
\* set; the Japanese date can be set only when country = 'Japan', the American
\* one only when country = 'USA'; both are None for 'Japan, USA' and for None.
C4_ReleaseDatesExclusive ==
    \A j \in 1..Len(movie_dicts) :
        LET r == movie_dicts[j]
        IN  /\ ~(r.japan_release_date # None /\ r.usa_release_date # None)
            /\ r.japan_release_date # None => r.country = Some(JAPAN)
            /\ r.usa_release_date # None => r.country = Some(USA)
            /\ r.country \in {Some(JAPAN_USA), None} =>
                   (r.japan_release_date = None /\ r.usa_release_date = None)

C4_Witness ==
    /\ Len(movie_dicts) = 2
    /\ movie_dicts[1].country = Some(JAPAN)
    /\ movie_dicts[1].japan_release_date = Some([year |-> 2020, month |-> 7, day |-> 17])
    /\ movie_dicts[1].usa_release_date = None
    /\ movie_dicts[2].country = Some(USA)
    /\ movie_dicts[2].usa_release_date = Some(<<"1", "0", " ", "J", "u", "l", "y">>)
    /\ movie_dicts[2].japan_release_date = None

\* C5: when fetching or parsing the page of one link fails for good, that link
\* is skipped and the crawl goes on to the other links.
C5_FailedLinkSkipped ==
    call.out.exc # "" => (InMovieDf /\ counter = Len(movie_dicts))

\* the call's page was served and its budget is in a currency other than USD
NonUsdBudget ==
    /\ call.link # <<>>
    /\ call.detail.exc = ""
    /\ call.detail.val.budget # None
    /\ ~Contains(clean_budget(Strip(call.detail.val.budget[1])), <<"$">>)

\* C6: when a page has a non-USD budget and the rate service has no rate, the
\* record is still produced, with budget None and every other field as usual.
C6_RateFailureDegradesBudget ==
    (NonUsdBudget /\ call.rates = "unavailable") =>
        LET usual == get_movie_dict(call.link,
                                    WebFor(call.link, call.detail, call.release),
                                    "available")
        IN  usual.exc = "" =>
               /\ call.out.exc = ""
               /\ call.out.val = [usual.val EXCEPT !.budget = None]
               /\ InMovieDf
               /\ movie_dicts[counter] = call.out.val

\* C7: the release-info page is fetched only if country is exactly 'Japan' or
\* exactly 'USA'; otherwise the link costs one fetch and both dates are None.
C7_ReleaseInfoFetchedOnDemand ==
    (call.out.exc = "" /\ call.link # <<>>) =>
        /\ Len(call.out.requests) = 2 =>
               call.out.val.country \in {Some(JAPAN), Some(USA)}
        /\ call.out.val.country \notin {Some(JAPAN), Some(USA)} =>
               /\ call.out.requests = <<BASE_URL \o call.link>>
               /\ call.out.val.japan_release_date = None
               /\ call.out.val.usa_release_date = None

====
